---- MODULE Spec2Model ----
(***************************************************************************)
(* Model of the NexDerm backend's model pipeline:                          *)
(*   - ModelService  (backend/app/services/model_service.py): the          *)
(*     process-wide holder of the classifier, built by __new__;            *)
(*   - VascularLesionTrainer (backend/app/models/ml/train_model.py): the   *)
(*     epoch loop and its checkpoint writes;                               *)
(*   - EfficientNetV2DiseaseClassifier (backend/app/models/ml/model.py):   *)
(*     build / load / save / predict.                                      *)
(* Each component has its own specification over the shared variables.     *)
(***************************************************************************)
EXTENDS Integers, Sequences, FiniteSets, TLC

\* ------------------------------------------------------------------------
\* Bounds
\* ------------------------------------------------------------------------
\* number of threads that call ModelService()
NumThreads == 2

\* number of ModelService() calls each thread makes
MaxCalls == 1

\* number of times the body of app.services.model_service is executed in the
\* process: the first import and the imports after one that raised
MaxImports == 2

\* largest num_epochs a trainer is given, and the most training passes all
\* train() calls on one trainer make together
MaxEpochs == 2

\* accuracies are k / MaxAcc for k in 0..MaxAcc (correct samples of MaxAcc)
MaxAcc == 1

\* parameter values a built or trained network takes range over 0..MaxWeight
MaxWeight == 1

\* images are the pixel intensities 0..MaxPixel
MaxPixel == 2

\* largest number of directories given to SkinLesionDataset
MaxDirs == 2

\* largest images_per_class
MaxCap == 3

\* longest class list given to SkinLesionDataset
MaxClasses == 2

\* ------------------------------------------------------------------------
\* ModelService: state
\* ------------------------------------------------------------------------
VARIABLES
    module,        \* the import of app.services.model_service: unimported,
                   \* importing, bound (line 54 done), failed (it raised)
    imports,       \* number of executions of the module body so far
    model_service, \* the module-level name of line 54: 0 is unbound
    instance,      \* per class ModelService (one per execution of the module
                   \* body): its _instance, 0 is None, else the object's id
    objs,          \* number of ModelService objects allocated so far
    classifierOf,  \* per object: its `classifier` attribute, 0 is None
    loads,         \* number of executions of _load_model so far
    modelFile,     \* what is at settings.MODEL_PATH
    spc,           \* per caller: position inside ModelService.__new__
    stmp,          \* per caller: the classifier its _load_model call built
    sret,          \* per caller: the object its last completed call returned
    serr,          \* per caller: the error its last call raised
    scalls,        \* per caller: number of ModelService() calls started
    scls,          \* per caller: the class ModelService it holds, 0 is none
    sreq,          \* per thread: the bytes of its classify request that is
                   \* suspended at `await file.read()`, "none" without one
    sout,          \* per thread: outcome of its last predict_from_image_bytes
    shttp          \* per thread: HTTP status of its last classify request, 0 is none

svars == <<module, imports, model_service, instance, objs, classifierOf,
           loads, modelFile, spc, stmp, sret, serr, scalls, scls, sreq, sout,
           shttp>>

\* ------------------------------------------------------------------------
\* VascularLesionTrainer: state
\* ------------------------------------------------------------------------
VARIABLES
    tpc,           \* position inside VascularLesionTrainer.train
    num_epochs,    \* self.num_epochs
    epoch,         \* the loop variable of line 247 (0-based)
    modelEpochs,   \* self.model: number of training passes applied to it
    schedSteps,    \* number of self.scheduler.step() calls
    valPasses,     \* number of self.validate(val_loader) calls that returned
    cur,           \* train_loss, train_acc, val_loss, val_acc of this epoch
    history,       \* self.history
    best_val_acc,  \* the local best_val_acc of train
    bestAttempts,  \* 1-based epochs of this train() call that called
                   \* save_checkpoint('best_model.pth')
    lastWrites,    \* per save_checkpoint('last_model.pth') call of this train()
                   \* call: the epochs it had completed then
    failedEpochs,  \* 1-based epochs whose best_model.pth write failed
    lastSave,      \* the last save_checkpoint call: file, outcome, return
    base,          \* the counters as they were when this train() call began
    train_loader,  \* the train_loader this call was given: batches or empty
    val_loader,    \* the val_loader this call was given: batches or empty
    terr,          \* the exception that left this train() call
    disk           \* the files under model_save_dir / artifacts_dir

\* what stays as it is from the start of a train() call to its end
runvars == <<base, train_loader, val_loader>>

tvars == <<tpc, num_epochs, epoch, modelEpochs, schedSteps, valPasses, cur,
           history,
           best_val_acc, bestAttempts, lastWrites, failedEpochs, lastSave,
           runvars, terr>>

\* ------------------------------------------------------------------------
\* EfficientNetV2DiseaseClassifier: state
\* ------------------------------------------------------------------------
VARIABLES
    model,         \* self.model: built or None, its parameters, its mode
    cprev,         \* self.model as it was before the last operation
    cout           \* the last operation and what it returned or raised

cvars == <<model, cprev, cout>>

\* ------------------------------------------------------------------------
\* SkinLesionDataset / create_dataloaders: state
\* ------------------------------------------------------------------------
VARIABLES
    data_dirs,        \* the directories given as root_dirs / data_dirs
    dpc,              \* idle, built (constructor), loaders, failed
    images_per_class, \* the cap given, 0 before any call
    val_split,        \* the validation fraction given, in tenths
    dataset,          \* the SkinLesionDataset object
    dlog,             \* what its constructor printed
    derr,             \* the error create_dataloaders raised
    train_dataset,    \* indices of the training Subset
    val_dataset,      \* indices of the validation Subset
    sample            \* the last sample read and the transform applied to it

dvars == <<data_dirs, dpc, images_per_class, val_split, dataset, dlog, derr,
           train_dataset, val_dataset, sample>>

notService == <<tvars, disk, cvars, dvars>>
notTrainer == <<svars, cvars, dvars>>
notClassifier == <<svars, tvars, dvars>>
notDataset == <<svars, tvars, disk, cvars>>

Threads == 1..NumThreads

\* the thread that imports app.services.model_service and so runs line 54
Main == 0

\* who calls ModelService(): the importing thread at line 54, and the
\* threads of the process once they can reach the class
Callers == {Main} \cup Threads

\* model_service.py:54 is the one call the import makes
CallsOf(t) == IF t = Main THEN 1 ELSE MaxCalls

\* ids of the ModelService objects the callers can allocate
ObjIds == 1..(MaxImports + NumThreads * MaxCalls)

\* the classes ModelService of the process: the n-th execution of the module
\* body creates the n-th (line 12)
ServiceClasses == 1..MaxImports

ModelFileStates == {"valid", "missing", "corrupt"}

\* what a classify request uploads
Uploads == {"image", "garbage"}

\* DenseNetDiseaseClassifier.load_from_checkpoint, called at
\* model_service.py:36; its body is not in the sources, its outcomes are
\* those of the specification (section 4.2).
load_from_checkpoint(file) ==
    CASE file = "valid"   -> "ok"
      [] file = "missing" -> "ArtifactNotFoundError"
      [] file = "corrupt" -> "CorruptArtifactError"

InitService ==
    /\ module = "unimported"
    /\ imports = 0
    /\ model_service = 0
    /\ instance = [c \in ServiceClasses |-> 0]
    /\ objs = 0
    /\ classifierOf = [o \in ObjIds |-> 0]
    /\ loads = 0
    /\ modelFile \in ModelFileStates
    /\ spc = [t \in Callers |-> "idle"]
    /\ stmp = [t \in Callers |-> 0]
    /\ sret = [t \in Callers |-> 0]
    /\ serr = [t \in Callers |-> "none"]
    /\ scalls = [t \in Callers |-> 0]
    /\ scls = [t \in Callers |-> 0]
    /\ sreq = [t \in Threads |-> "none"]
    /\ sout = [t \in Threads |-> "none"]
    /\ shttp = [t \in Threads |-> 0]

\* classify.py:2 `from app.services.model_service import model_service`
\* while the module is not in sys.modules: the first import of the process,
\* or an import after one that raised (a module whose body raised is taken
\* out of sys.modules, so the next importer runs the body again).  Line 9,
\* `from app.models.ml.model import DenseNetDiseaseClassifier`, raises
\* ImportError when app.models.ml.model has no such name, and the import is
\* over.  Otherwise lines 12-53 create a new class ModelService with
\* _instance = None (line 16), and line 54 is about to call it.  The class
\* of an earlier import, its _instance and the calls running on it are not
\* touched.
ImportModule ==
    /\ module \in {"unimported", "failed"}
    /\ imports < MaxImports
    /\ imports' = imports + 1
    /\ \E hasDenseNet \in BOOLEAN :
          IF hasDenseNet
          THEN /\ module' = "importing"
               /\ scls' = [scls EXCEPT ![Main] = imports + 1]
               /\ scalls' = [scalls EXCEPT ![Main] = 0]
               /\ sret' = [sret EXCEPT ![Main] = 0]
               /\ serr' = [serr EXCEPT ![Main] = "none"]
          ELSE /\ module' = "failed"
               /\ UNCHANGED <<scls, scalls, sret, serr>>
    /\ UNCHANGED <<model_service, instance, objs, classifierOf, loads,
                   modelFile, spc, stmp, sreq, sout, shttp>>
    /\ UNCHANGED notService

\* A thread gets hold of the class of the module as it is now.  The module
\* is in sys.modules from the start of its import and the name ModelService
\* is bound in it from line 12 on, so this can be while the call of line 54
\* is under way, and afterwards.  After an import that raised the module is
\* gone from sys.modules; a class taken before stays with the thread.
TakeClass(t) ==
    /\ module \in {"importing", "bound"}
    /\ spc[t] = "idle"
    /\ scls[t] # imports
    /\ scls' = [scls EXCEPT ![t] = imports]
    /\ UNCHANGED <<module, imports, model_service, instance, objs, classifierOf,
                   loads, modelFile, spc, stmp, sret, serr, scalls, sreq, sout,
                   shttp>>
    /\ UNCHANGED notService

\* Who can call ModelService().  The importing thread makes the call of
\* line 54 while the import runs.  A thread can call the class it holds at
\* any time; __new__ takes no lock.
MayRun(t) ==
    IF t = Main THEN module = "importing" ELSE scls[t] # 0

\* A caller starts a call ModelService() and evaluates line 20,
\* `if cls._instance is None`.
NewCheck(t) ==
    /\ MayRun(t)
    /\ spc[t] = "idle"
    /\ scalls[t] < CallsOf(t)
    /\ scalls' = [scalls EXCEPT ![t] = @ + 1]
    /\ serr' = [serr EXCEPT ![t] = "none"]
    /\ spc' = [spc EXCEPT ![t] =
                  IF instance[scls[t]] = 0 THEN "alloc" ELSE "return"]
    /\ UNCHANGED <<module, model_service, instance, objs, classifierOf, loads,
                   modelFile, imports, scls, stmp, sret, sreq, sout, shttp>>
    /\ UNCHANGED notService

\* Line 21: cls._instance = super().__new__(cls).  The new object has no
\* instance attribute `classifier`; reads fall back to the class attribute
\* None (line 17).
NewAlloc(t) ==
    /\ spc[t] = "alloc"
    /\ objs' = objs + 1
    /\ instance' = [instance EXCEPT ![scls[t]] = objs + 1]
    /\ spc' = [spc EXCEPT ![t] = "load"]
    /\ UNCHANGED <<module, model_service, classifierOf, loads, modelFile, imports, scls,
                   stmp, sret, serr, scalls, sreq, sout, shttp>>
    /\ UNCHANGED notService

\* Line 22, right-hand side: the call of cls._load_model() begins and builds
\* its own classifier object (line 35), the n-th one for the n-th call.
LoadStart(t) ==
    /\ spc[t] = "load"
    /\ loads' = loads + 1
    /\ stmp' = [stmp EXCEPT ![t] = loads + 1]
    /\ spc' = [spc EXCEPT ![t] = "loading"]
    /\ UNCHANGED <<module, model_service, instance, objs, classifierOf,
                   modelFile, imports, scls, sret, serr, scalls, sreq, sout, shttp>>
    /\ UNCHANGED notService

\* Lines 36-38: _load_model loads the checkpoint into the classifier it
\* built and returns it.  An error of load_from_checkpoint propagates out of
\* __new__: the classifier is dropped, the assignment of line 21 is not
\* undone.  Out of the call of line 54 the error goes on out of the import:
\* the name model_service is never bound.
LoadFinish(t) ==
    /\ spc[t] = "loading"
    /\ LET r == load_from_checkpoint(modelFile) IN
       IF r = "ok"
       THEN /\ spc' = [spc EXCEPT ![t] = "install"]
            /\ UNCHANGED <<serr, stmp, module>>
       ELSE /\ serr' = [serr EXCEPT ![t] = r]
            /\ spc' = [spc EXCEPT ![t] = "idle"]
            /\ stmp' = [stmp EXCEPT ![t] = 0]
            /\ module' = IF t = Main THEN "failed" ELSE module
    /\ UNCHANGED <<model_service, instance, objs, classifierOf, loads,
                   modelFile, imports, scls, sret, scalls, sreq, sout, shttp>>
    /\ UNCHANGED notService

\* Line 22, the store: cls._instance is read again and the classifier is
\* set on whatever object it names now.
NewInstall(t) ==
    /\ spc[t] = "install"
    /\ classifierOf' = [classifierOf EXCEPT ![instance[scls[t]]] = stmp[t]]
    /\ spc' = [spc EXCEPT ![t] = "return"]
    /\ UNCHANGED <<module, model_service, instance, objs, loads, modelFile, imports, scls,
                   stmp, sret, serr, scalls, sreq, sout, shttp>>
    /\ UNCHANGED notService

\* Line 23: return cls._instance.
NewReturn(t) ==
    /\ spc[t] = "return"
    /\ sret' = [sret EXCEPT ![t] = instance[scls[t]]]
    /\ spc' = [spc EXCEPT ![t] = "idle"]
    /\ UNCHANGED <<module, model_service, instance, objs, classifierOf, loads,
                   modelFile, imports, scls, stmp, serr, scalls, sreq, sout, shttp>>
    /\ UNCHANGED notService

\* Line 54, the assignment: the object the call returned is bound to the
\* module-level name model_service, and the import is over.
BindModelService ==
    /\ module = "importing"
    /\ spc[Main] = "idle"
    /\ sret[Main] # 0
    /\ model_service' = sret[Main]
    /\ module' = "bound"
    /\ UNCHANGED <<instance, objs, classifierOf, loads, modelFile, imports, scls, spc, stmp,
                   sret, serr, scalls, sreq, sout, shttp>>
    /\ UNCHANGED notService

\* Lines 40-51: predict_from_image_bytes on the object model_service names.
\* Image.open raises on undecodable bytes; self.classifier.predict on a
\* None classifier is an attribute lookup on None.
predict_from_image_bytes(obj, decodable) ==
    IF ~decodable THEN "UnidentifiedImageError"
    ELSE IF classifierOf[obj] = 0 THEN "AttributeError"
    ELSE "ok"

\* classify.py:20-23: classify_image passes the uploaded bytes to
\* model_service.predict_from_image_bytes and returns its result; it has no
\* try/except and raises no HTTPException, so an exception of the call
\* leaves the handler and the framework answers 500 Internal Server Error.
classify_image(obj, decodable) ==
    LET r == predict_from_image_bytes(obj, decodable) IN
    [out |-> r, status |-> IF r = "ok" THEN 200 ELSE 500]

\* classify.py:6-17: a request to POST /image reaches the handler, which
\* awaits file.read() and gives control back to the event loop.  The router
\* exists only when its import of model_service succeeded.
RequestStart(t) ==
    /\ module = "bound"
    /\ sreq[t] = "none"
    /\ \E bytes \in Uploads : sreq' = [sreq EXCEPT ![t] = bytes]
    /\ UNCHANGED <<module, model_service, instance, objs, classifierOf, loads,
                   modelFile, imports, scls, spc, stmp, sret, serr, scalls, sout, shttp>>
    /\ UNCHANGED notService

\* classify.py:17-23: the read is over and the handler resumes; it calls
\* predict_from_image_bytes on the module's model_service as that object is
\* now, and answers.
RequestFinish(t) ==
    /\ sreq[t] # "none"
    /\ LET resp == classify_image(model_service, sreq[t] = "image") IN
          /\ sout' = [sout EXCEPT ![t] = resp.out]
          /\ shttp' = [shttp EXCEPT ![t] = resp.status]
    /\ sreq' = [sreq EXCEPT ![t] = "none"]
    /\ UNCHANGED <<module, model_service, instance, objs, classifierOf, loads,
                   modelFile, imports, scls, spc, stmp, sret, serr, scalls>>
    /\ UNCHANGED notService

NextService ==
    \/ ImportModule
    \/ BindModelService
    \/ \E t \in Callers :
          \/ NewCheck(t)
          \/ NewAlloc(t)
          \/ LoadStart(t)
          \/ LoadFinish(t)
          \/ NewInstall(t)
          \/ NewReturn(t)
    \/ \E t \in Threads :
          \/ TakeClass(t)
          \/ RequestStart(t)
          \/ RequestFinish(t)

\* ------------------------------------------------------------------------
\* Files: what torch.save leaves on disk and torch.load reads back
\* ------------------------------------------------------------------------
\* names of the parameters of the network (keys of model.state_dict())
ParamKeys == {"features", "classifier"}

EmptyHistory ==
    [train_loss |-> <<>>, train_acc |-> <<>>, val_loss |-> <<>>, val_acc |-> <<>>]

NoTensors == [k \in ParamKeys |-> 0]

\* A file: `state` says whether a complete pickle is there; `keys` are the
\* top-level keys of the pickled dict; `tensors` the values of the top-level
\* keys that are parameter names; the other fields are the values of the
\* keys of the same name.
NoFile ==
    [state |-> "none", keys |-> {}, tensors |-> NoTensors, c2i |-> {},
     model_state_dict |-> 0, history |-> EmptyHistory]

\* a zero-length file
EmptyFile == [NoFile EXCEPT !.state = "empty"]

\* a file whose write stopped half way
PartialFile == [NoFile EXCEPT !.state = "partial"]

\* train_model.py:286-291, the dict save_checkpoint pickles
CheckpointPayload(weights, hist) ==
    [state |-> "written",
     keys |-> {"model_state_dict", "optimizer_state_dict", "history", "timestamp"},
     tensors |-> NoTensors, c2i |-> {},
     model_state_dict |-> weights, history |-> hist]

\* model.py:163, torch.save(self.model.state_dict(), path): the pickled dict
\* is the state dict itself, keyed by parameter name
StateDictFile(w) ==
    [state |-> "written", keys |-> ParamKeys, tensors |-> w, c2i |-> {},
     model_state_dict |-> 0, history |-> EmptyHistory]

TrainerFiles == {"best_model.pth", "last_model.pth"}

ClassifierFiles ==
    {"model_final.pt", "a.pt", "b.pt", "partial.pt", "spec.pth", "gap.pth",
     "missing.pt"}

Files == TrainerFiles \cup ClassifierFiles

\* ------------------------------------------------------------------------
\* VascularLesionTrainer.train and save_checkpoint
\* ------------------------------------------------------------------------
AccLevels == 0..MaxAcc

\* what train_epoch can return: (loss, accuracy), the accuracy any share
\* k / MaxAcc of the samples
TrainMetrics == {[loss |-> 1, acc |-> a] : a \in AccLevels}

\* what validate can return: (loss, accuracy)
ValMetrics == {[loss |-> MaxAcc - a, acc |-> a] : a \in AccLevels}

NoMetrics == [train_loss |-> 0, train_acc |-> 0, val_loss |-> 0, val_acc |-> 0]

\* how one save_checkpoint call can go: the directory cannot be made, torch.save
\* raises before or after it has touched the target, the file is missing or
\* empty afterwards, stat raises, or all is well
WriteOutcomes ==
    {"ok", "mkdir_error", "save_error", "save_partial", "empty", "verify_error"}

\* train_model.py:276-308.  Returns the value returned (or "raise") and the
\* disk afterwards.
SaveCheckpointNoCatch(d, filename, payload, o) ==
    CASE o = "mkdir_error"  -> [ret |-> "raise", disk |-> d]
      [] o = "save_error"   -> [ret |-> "raise", disk |-> d]
      [] o = "save_partial" -> [ret |-> "raise",
                                disk |-> [d EXCEPT ![filename] = PartialFile]]
      [] o = "empty"        -> [ret |-> "False",
                                disk |-> [d EXCEPT ![filename] = EmptyFile]]
      [] o = "verify_error" -> [ret |-> "raise",
                                disk |-> [d EXCEPT ![filename] = payload]]
      [] o = "ok"           -> [ret |-> "True",
                                disk |-> [d EXCEPT ![filename] = payload]]

save_checkpoint(d, filename, payload, o) ==
    CASE o = "mkdir_error"  -> [ret |-> "False", disk |-> d]
      [] o = "save_error"   -> [ret |-> "False", disk |-> d]
      [] o = "save_partial" -> [ret |-> "False",
                                disk |-> [d EXCEPT ![filename] = PartialFile]]
      [] o = "empty"        -> [ret |-> "False",
                                disk |-> [d EXCEPT ![filename] = EmptyFile]]
      [] o = "verify_error" -> [ret |-> "False",
                                disk |-> [d EXCEPT ![filename] = payload]]
      [] o = "ok"           -> [ret |-> "True",
                                disk |-> [d EXCEPT ![filename] = payload]]

\* train_model.py:261, `if val_acc > best_val_acc`
ImprovesOrEqual(val_acc, best) == val_acc >= best

Improves(val_acc, best) == val_acc > best

\* train_model.py:247, `for epoch in range(self.num_epochs)`
LoopStopsEarly(e, n) == e < n - 1

LoopContinues(e, n) == e < n

\* what can be in model_save_dir when the trainer is constructed: nothing, or
\* checkpoints an earlier process left there
StaleFile == CheckpointPayload(0, EmptyHistory)

\* a DataLoader either yields batches or, over an empty partition, none
Loaders == {"batches", "empty"}

NoBase == [epochs |-> 0, hist |-> 0, sched |-> 0, val |-> 0]

InitTrainer ==
    /\ tpc = "idle"
    /\ epoch = 0
    /\ modelEpochs = 0
    /\ schedSteps = 0
    /\ valPasses = 0
    /\ cur = NoMetrics
    /\ history = EmptyHistory
    /\ best_val_acc = 0
    /\ bestAttempts = {}
    /\ lastWrites = <<>>
    /\ failedEpochs = {}
    /\ lastSave = [file |-> "none", outcome |-> "none", ret |-> "none"]
    /\ base = NoBase
    /\ train_loader = "batches"
    /\ val_loader = "batches"
    /\ terr = "none"

InitTrainerDisk ==
    \E stale \in BOOLEAN :
        disk = [f \in Files |->
                  IF stale /\ f \in TrainerFiles THEN StaleFile ELSE NoFile]

\* train_model.py:243-245: train(train_loader, val_loader) is called, for the
\* first time or again after an earlier call has returned or raised;
\* best_val_acc = 0.0 and the loop starts over, self.history, the model and
\* the scheduler are the trainer's and stay as they are.
TrainStart ==
    /\ tpc \in {"idle", "done", "aborted"}
    /\ modelEpochs + num_epochs <= MaxEpochs
    /\ \E tl \in Loaders, vl \in Loaders :
          /\ train_loader' = tl
          /\ val_loader' = vl
    /\ base' = [epochs |-> modelEpochs, hist |-> Len(history.val_acc),
                sched |-> schedSteps, val |-> valPasses]
    /\ best_val_acc' = 0
    /\ epoch' = 0
    /\ bestAttempts' = {}
    /\ lastWrites' = <<>>
    /\ failedEpochs' = {}
    /\ terr' = "none"
    /\ tpc' = "loop"
    /\ UNCHANGED <<num_epochs, modelEpochs, schedSteps, valPasses, cur, history,
                   lastSave, disk>>
    /\ UNCHANGED notTrainer

\* train_model.py:247: the loop test
TrainLoop ==
    /\ tpc = "loop"
    /\ tpc' = IF LoopContinues(epoch, num_epochs) THEN "train_epoch" ELSE "save_last"
    /\ UNCHANGED <<num_epochs, epoch, modelEpochs, schedSteps, valPasses, cur, history,
                   best_val_acc, bestAttempts, lastWrites, failedEpochs,
                   lastSave, runvars, terr, disk>>
    /\ UNCHANGED notTrainer

\* train_model.py:248, 194-220: one pass over the training split updates the
\* weights.  A loader without batches leaves total_samples at 0 and line 220
\* divides by it: the error leaves train.
TrainEpoch ==
    /\ tpc = "train_epoch"
    /\ IF train_loader = "empty"
       THEN /\ terr' = "ZeroDivisionError"
            /\ tpc' = "aborted"
            /\ UNCHANGED <<cur, modelEpochs>>
       ELSE /\ \E m \in TrainMetrics :
                  cur' = [cur EXCEPT !.train_loss = m.loss, !.train_acc = m.acc]
            /\ modelEpochs' = modelEpochs + 1
            /\ tpc' = "validate"
            /\ UNCHANGED terr
    /\ UNCHANGED <<num_epochs, epoch, schedSteps, valPasses, history, best_val_acc,
                   bestAttempts, lastWrites, failedEpochs, lastSave, runvars,
                   disk>>
    /\ UNCHANGED notTrainer

\* train_model.py:249, 222-241: one pass over the validation split, no weight
\* update.  A loader without batches makes line 241 divide by 0: the error
\* leaves train after the training pass.
Validate ==
    /\ tpc = "validate"
    /\ IF val_loader = "empty"
       THEN /\ terr' = "ZeroDivisionError"
            /\ tpc' = "aborted"
            /\ UNCHANGED <<cur, valPasses>>
       ELSE /\ \E m \in ValMetrics :
                  cur' = [cur EXCEPT !.val_loss = m.loss, !.val_acc = m.acc]
            /\ valPasses' = valPasses + 1
            /\ tpc' = "scheduler"
            /\ UNCHANGED terr
    /\ UNCHANGED <<num_epochs, epoch, modelEpochs, schedSteps, history,
                   best_val_acc, bestAttempts, lastWrites, failedEpochs,
                   lastSave, runvars, disk>>
    /\ UNCHANGED notTrainer

\* train_model.py:250: self.scheduler.step()
SchedulerStepTwice ==
    /\ tpc = "scheduler"
    /\ schedSteps' = schedSteps + 2
    /\ tpc' = "epoch_end"
    /\ UNCHANGED <<num_epochs, epoch, modelEpochs, valPasses, cur, history,
                   best_val_acc, bestAttempts, lastWrites, failedEpochs,
                   lastSave, runvars, terr, disk>>
    /\ UNCHANGED notTrainer

SchedulerStep ==
    /\ tpc = "scheduler"
    /\ schedSteps' = schedSteps + 1
    /\ tpc' = "epoch_end"
    /\ UNCHANGED <<num_epochs, epoch, modelEpochs, valPasses, cur, history, best_val_acc,
                   bestAttempts, lastWrites, failedEpochs, lastSave, runvars,
                   terr, disk>>
    /\ UNCHANGED notTrainer

\* train_model.py:252-255
AppendHistory(h, m) ==
    [train_loss |-> Append(h.train_loss, m.train_loss),
     train_acc  |-> Append(h.train_acc, m.train_acc),
     val_loss   |-> Append(h.val_loss, m.val_loss),
     val_acc    |-> Append(h.val_acc, m.val_acc)]

\* train_model.py:252-268: the metrics are appended to the history, and the
\* best checkpoint is written when the validation accuracy improved
EpochEnd ==
    /\ tpc = "epoch_end"
    /\ LET h == AppendHistory(history, cur) IN
       /\ history' = h
       /\ IF Improves(cur.val_acc, best_val_acc)
          THEN \E o \in WriteOutcomes :
                 LET r == save_checkpoint(disk, "best_model.pth",
                                          CheckpointPayload(modelEpochs, h), o)
                 IN
                 /\ best_val_acc' = cur.val_acc
                 /\ bestAttempts' = bestAttempts \cup {epoch + 1}
                 /\ disk' = r.disk
                 /\ lastSave' = [file |-> "best_model.pth", outcome |-> o,
                                 ret |-> r.ret]
                 /\ failedEpochs' = IF r.ret = "True" THEN failedEpochs
                                    ELSE failedEpochs \cup {epoch + 1}
                 /\ IF r.ret = "raise"
                    THEN tpc' = "aborted" /\ terr' = o /\ UNCHANGED epoch
                    ELSE tpc' = "loop" /\ epoch' = epoch + 1 /\ UNCHANGED terr
          ELSE /\ tpc' = "loop"
               /\ epoch' = epoch + 1
               /\ UNCHANGED <<best_val_acc, bestAttempts, disk, lastSave,
                              failedEpochs, terr>>
    /\ UNCHANGED <<num_epochs, modelEpochs, schedSteps, valPasses, cur,
                   lastWrites, runvars>>
    /\ UNCHANGED notTrainer

\* train_model.py:269-274: after the loop, the last checkpoint is written
SaveLast ==
    /\ tpc = "save_last"
    /\ \E o \in WriteOutcomes :
         LET r == save_checkpoint(disk, "last_model.pth",
                                  CheckpointPayload(modelEpochs, history), o)
         IN
         /\ disk' = r.disk
         /\ lastSave' = [file |-> "last_model.pth", outcome |-> o, ret |-> r.ret]
         /\ lastWrites' = Append(lastWrites, epoch)
         /\ IF r.ret = "raise"
            THEN tpc' = "aborted" /\ terr' = o
            ELSE tpc' = "done" /\ UNCHANGED terr
    /\ UNCHANGED <<num_epochs, epoch, modelEpochs, schedSteps, valPasses, cur, history,
                   best_val_acc, bestAttempts, failedEpochs, runvars>>
    /\ UNCHANGED notTrainer

NextTrainer ==
    \/ TrainStart
    \/ TrainLoop
    \/ TrainEpoch
    \/ Validate
    \/ SchedulerStep
    \/ EpochEnd
    \/ SaveLast

\* ------------------------------------------------------------------------
\* EfficientNetV2DiseaseClassifier (model.py)
\* ------------------------------------------------------------------------
\* model.py:53, num_classes=2
NumClasses == 2

Classes == 0..(NumClasses - 1)

WeightVals == 0..MaxWeight

AllWeights == [ParamKeys -> WeightVals]

Images == 0..MaxPixel

\* the backbone weights timm.create_model(pretrained=True) starts from
PretrainedFeatures == 1

NoModel == [built |-> FALSE, w |-> NoTensors, training |-> FALSE]

NoLogits == [c \in Classes |-> 0]

NoOp ==
    [op |-> "none", path |-> "none", result |-> "none", img |-> 0,
     logits |-> NoLogits, probs |-> NoLogits, label |-> "none", conf |-> 0]

\* model.py:42-57, build_model: the import of timm can fail; otherwise a
\* network with pretrained backbone and a fresh head h, in training mode
BuildResults == [timm : BOOLEAN, head : WeightVals]

\* build_model runs inside load_model and fit only when self.model is None
BuildChoices(m) ==
    IF m.built THEN {[timm |-> TRUE, head |-> 0]} ELSE BuildResults

BuiltModel(h) ==
    [built |-> TRUE,
     w |-> [k \in ParamKeys |-> IF k = "features" THEN PretrainedFeatures ELSE h],
     training |-> TRUE]

\* the forward pass self.model(image_tensor): a backbone feature scaled by
\* the image, and a head, giving NumClasses logits
Forward(w, img) ==
    [c \in Classes |-> IF c = 0 THEN w["features"] * img ELSE w["classifier"]]

\* 1000 * exp(d) for d <= 0, rounded
ExpMilli(d) ==
    CASE d = 0  -> 1000
      [] d = -1 -> 368
      [] d = -2 -> 135
      [] d = -3 -> 50
      [] d = -4 -> 18
      [] d = -5 -> 7
      [] d = -6 -> 2
      [] OTHER  -> 0

MaxOf(f) == CHOOSE m \in {f[c] : c \in Classes} : \A c \in Classes : f[c] <= m

SumOver(f) == f[0] + f[1]

\* model.py:90, torch.softmax(logits, dim=1), in thousandths
Softmax(l) ==
    LET e == [c \in Classes |-> ExpMilli(l[c] - MaxOf(l))] IN
    [c \in Classes |-> (e[c] * 1000) \div SumOver(e)]

\* model.py:91, torch.max(probs, dim=1): the maximum and the first index that
\* has it
ArgMaxLast(p) ==
    CHOOSE i \in Classes : p[i] = MaxOf(p) /\ \A j \in Classes : j > i => p[j] < p[i]

ArgMax(p) ==
    CHOOSE i \in Classes : p[i] = MaxOf(p) /\ \A j \in Classes : j < i => p[j] < p[i]

\* model.py:93
Label(pred_class) == IF pred_class = 1 THEN "disease" ELSE "no_disease"

\* model.py:83-84, the guard of predict: `if self.model is None: raise
\* RuntimeError("Model not built. Call build_model() first.")`
ModelNotBuilt == "RuntimeError: Model not built"

PredictGuard(m) == IF ~m.built THEN ModelNotBuilt ELSE "ok"

\* torch.load(path): what reading the file gives
torch_load(f) ==
    CASE f.state = "none"    -> "FileNotFoundError"
      [] f.state = "empty"   -> "EOFError"
      [] f.state = "partial" -> "RuntimeError"
      [] OTHER               -> "ok"

\* nn.Module.load_state_dict(state_dict), strict: every parameter whose key
\* is in the dict is copied, then missing or unexpected keys raise
load_state_dict(w, f) ==
    [w |-> [k \in ParamKeys |-> IF k \in f.keys THEN f.tensors[k] ELSE w[k]],
     result |-> IF f.keys = ParamKeys THEN "ok" ELSE "RuntimeError"]

\* the files a classifier process finds: two complete state dicts, one with
\* a parameter missing, a bundle with the keys weights and class_to_index, the
\* same with a gap in the indices, a checkpoint as the trainer writes it, and
\* paths with nothing there
SpecBundle(mapping) ==
    [state |-> "written", keys |-> {"weights", "class_to_index"},
     tensors |-> NoTensors, c2i |-> mapping,
     model_state_dict |-> 0, history |-> EmptyHistory]

OneEpochHistory ==
    [train_loss |-> <<1>>, train_acc |-> <<0>>, val_loss |-> <<1>>,
     val_acc |-> <<1>>]

InitClassifierDisk ==
    disk = [f \in Files |->
        CASE f = "a.pt"      -> StateDictFile([k \in ParamKeys |->
                                    IF k = "features" THEN 2 ELSE -1])
          [] f = "b.pt"      -> StateDictFile([k \in ParamKeys |->
                                    IF k = "features" THEN 0 ELSE 1])
          [] f = "partial.pt" -> [StateDictFile([k \in ParamKeys |-> 2])
                                    EXCEPT !.keys = {"classifier"}]
          [] f = "spec.pth"  -> SpecBundle({<<"a", 0>>, <<"b", 1>>})
          [] f = "gap.pth"   -> SpecBundle({<<"a", 0>>, <<"b", 2>>})
          [] f = "best_model.pth" -> CheckpointPayload(1, OneEpochHistory)
          [] OTHER           -> NoFile]

InitClassifier ==
    /\ model = NoModel
    /\ cprev = NoModel
    /\ cout = NoOp

\* model.py:42-57
ClfBuild ==
    /\ \E b \in BuildResults :
          IF ~b.timm
          THEN /\ model' = model
               /\ cout' = [NoOp EXCEPT !.op = "build_model",
                                         !.result = "ImportError"]
          ELSE /\ model' = BuiltModel(b.head)
               /\ cout' = [NoOp EXCEPT !.op = "build_model", !.result = "ok"]
    /\ cprev' = model
    /\ UNCHANGED disk
    /\ UNCHANGED notClassifier

\* model.py:75-97, predict: the guard, eval mode, preprocessing, forward
\* pass, softmax, max, label
ClfPredict ==
    /\ \E img \in Images, decodable \in BOOLEAN :
          IF PredictGuard(model) # "ok"
          THEN /\ model' = model
               /\ cout' = [NoOp EXCEPT !.op = "predict", !.img = img,
                                         !.result = PredictGuard(model)]
          ELSE /\ model' = [model EXCEPT !.training = FALSE]
               /\ IF ~decodable
                  THEN cout' = [NoOp EXCEPT !.op = "predict", !.img = img,
                                            !.result = "ValueError"]
                  ELSE LET logits == Forward(model.w, img)
                           probs == Softmax(logits)
                           pred_class == ArgMax(probs)
                       IN cout' = [op |-> "predict", path |-> "none",
                                   result |-> "ok", img |-> img,
                                   logits |-> logits, probs |-> probs,
                                   label |-> Label(pred_class),
                                   conf |-> probs[pred_class]]
    /\ cprev' = model
    /\ UNCHANGED disk
    /\ UNCHANGED notClassifier

\* model.py:166-171, load_model: build the network if there is none, then
\* self.model.load_state_dict(torch.load(path))
ClfLoad ==
    /\ \E path \in Files, b \in BuildChoices(model) :
          LET m1 == IF model.built THEN model
                    ELSE IF ~b.timm THEN NoModel ELSE BuiltModel(b.head)
              rd == torch_load(disk[path])
              ld == load_state_dict(m1.w, disk[path])
          IN
          IF ~m1.built
          THEN /\ model' = model
               /\ cout' = [NoOp EXCEPT !.op = "load_model", !.path = path,
                                         !.result = "ImportError"]
          ELSE IF rd # "ok"
          THEN /\ model' = m1
               /\ cout' = [NoOp EXCEPT !.op = "load_model", !.path = path,
                                         !.result = rd]
          ELSE /\ model' = [m1 EXCEPT !.w = ld.w]
               /\ cout' = [NoOp EXCEPT !.op = "load_model", !.path = path,
                                         !.result = ld.result]
    /\ cprev' = model
    /\ UNCHANGED disk
    /\ UNCHANGED notClassifier

\* how one torch.save(state_dict, path) of save_model can go: all is well,
\* it raises before it has touched the target (directory absent, no
\* permission), it raises after it has begun to write, or it returns and
\* leaves a file of length 0; save_model neither catches nor verifies
SaveOutcomes == {"ok", "save_error", "save_partial", "empty"}

\* model.py:159-164, save_model(path): the guard, then torch.save of the bare
\* state dict
SaveModel(m, d, path, o) ==
    IF ~m.built THEN [result |-> "RuntimeError", disk |-> d]
    ELSE CASE o = "ok" ->
                [result |-> "ok",
                 disk |-> [d EXCEPT ![path] = StateDictFile(m.w)]]
           [] o = "save_error" ->
                [result |-> "OSError", disk |-> d]
           [] o = "save_partial" ->
                [result |-> "OSError", disk |-> [d EXCEPT ![path] = PartialFile]]
           [] o = "empty" ->
                [result |-> "ok", disk |-> [d EXCEPT ![path] = EmptyFile]]

\* save_model on the path fit uses, artifacts_dir / model_final.pt
ClfSave ==
    /\ \E o \in SaveOutcomes :
          LET r == SaveModel(model, disk, "model_final.pt", o) IN
          /\ disk' = r.disk
          /\ cout' = [NoOp EXCEPT !.op = "save_model", !.path = "model_final.pt",
                                    !.result = r.result]
    /\ model' = model
    /\ cprev' = model
    /\ UNCHANGED notClassifier

\* the calls of fit: epochs = 0; epochs >= 1 with a train_loader of length 0;
\* epochs >= 1 with batches and no validation (val_loader None or of length
\* 0, both false at line 138); the same with validation
FitKinds == {"no_epochs", "empty_loader", "train", "train_val"}

\* model.py:99-157, fit: build the network if there is none, train it, and
\* save it as model_final.pt.  With a train_loader of length 0 line 133
\* divides by len(train_loader) in the first epoch and the error leaves fit
\* before anything is saved.
ClfFit ==
    /\ \E b \in BuildChoices(model) :
          LET m1 == IF model.built THEN model
                    ELSE IF ~b.timm THEN NoModel ELSE BuiltModel(b.head)
          IN
          IF ~m1.built
          THEN /\ model' = model
               /\ disk' = disk
               /\ cout' = [NoOp EXCEPT !.op = "fit", !.result = "ImportError"]
          ELSE \E kind \in FitKinds :
               IF kind = "empty_loader"
               THEN /\ model' = [m1 EXCEPT !.training = TRUE]
                    /\ disk' = disk
                    /\ cout' = [NoOp EXCEPT !.op = "fit",
                                              !.result = "ZeroDivisionError"]
               ELSE \E o \in SaveOutcomes,
                       w2 \in (IF kind = "no_epochs" THEN {m1.w}
                               ELSE AllWeights) :
                       LET m2 == IF kind = "no_epochs" THEN m1
                                 ELSE [built |-> TRUE, w |-> w2,
                                       training |-> kind = "train"]
                           r == SaveModel(m2, disk, "model_final.pt", o)
                       IN
                       /\ model' = m2
                       /\ disk' = r.disk
                       /\ cout' = [NoOp EXCEPT !.op = "fit",
                                                 !.path = "model_final.pt",
                                                 !.result = r.result]
    /\ cprev' = model
    /\ UNCHANGED notClassifier

\* how download_artifacts_via_scp can go: the mkdir of the local directory
\* fails (its parent is absent, or a file has its name; the except clause
\* does not catch this), the scp copies the remote artifacts, it fails before
\* it has copied anything (no such remote file, no connection), it fails
\* while it copies model_final.pt, or it exits non-zero after it has copied
\* model_final.pt completely (another entry of artifacts/* could not be
\* copied, the connection broke afterwards)
DownloadOutcomes ==
    {"mkdir_error", "ok", "scp_error", "scp_partial", "scp_late_error"}

\* what the remote artifacts directory holds under the name model_final.pt
\* when scp copies it: nothing (a log only), or what save_model of the remote
\* job (remote_train.py -> fit) has left there by then: a state dict, a file
\* of length 0, or a file still being written or broken off
RemoteFiles ==
    {NoFile, EmptyFile, PartialFile} \cup {StateDictFile(w) : w \in AllWeights}

\* model.py:238-253, download_artifacts_via_scp: scp -r remote:artifacts/*
\* into the local artifacts directory.  A remote model_final.pt creates or
\* replaces the local one with its content, whatever that is: the method
\* returns when scp exits 0 and looks at nothing.  A failed scp raises
\* CalledProcessError (check=True, line 248) and what it had copied by then
\* stays; a failed mkdir raises an OSError.
download_artifacts_via_scp(d, o, remote) ==
    CASE o = "ok" ->
           [result |-> "ok",
            disk |-> IF remote = NoFile THEN d
                     ELSE [d EXCEPT !["model_final.pt"] = remote]]
      [] o = "mkdir_error" ->
           [result |-> "OSError", disk |-> d]
      [] o = "scp_error" ->
           [result |-> "CalledProcessError", disk |-> d]
      [] o = "scp_partial" ->
           [result |-> "CalledProcessError",
            disk |-> [d EXCEPT !["model_final.pt"] = PartialFile]]
      [] o = "scp_late_error" ->
           [result |-> "CalledProcessError",
            disk |-> IF remote = NoFile THEN d
                     ELSE [d EXCEPT !["model_final.pt"] = remote]]

\* the remote files that matter to one download: all when model_final.pt is
\* copied to its end, whether scp then exits 0 or not; none otherwise
RemoteFilesFor(o) ==
    IF o \in {"ok", "scp_late_error"} THEN RemoteFiles ELSE {NoFile}

ClfDownload ==
    /\ \E o \in DownloadOutcomes :
       \E remote \in RemoteFilesFor(o) :
          LET r == download_artifacts_via_scp(disk, o, remote) IN
          /\ disk' = r.disk
          /\ cout' = [NoOp EXCEPT !.op = "download_artifacts_via_scp",
                                    !.path = "model_final.pt",
                                    !.result = r.result]
    /\ model' = model
    /\ cprev' = model
    /\ UNCHANGED notClassifier

\* model.py:255-281, remote_training_flow: the uploads and the job
\* submission (each raises CalledProcessError when its command fails), then
\* download_artifacts_via_scp, right after the job was started
ClfRemoteFlow ==
    /\ \/ /\ disk' = disk
          /\ cout' = [NoOp EXCEPT !.op = "remote_training_flow",
                                    !.result = "CalledProcessError"]
       \/ \E o \in DownloadOutcomes :
          \E remote \in RemoteFilesFor(o) :
             LET r == download_artifacts_via_scp(disk, o, remote) IN
             /\ disk' = r.disk
             /\ cout' = [NoOp EXCEPT !.op = "remote_training_flow",
                                       !.path = "model_final.pt",
                                       !.result = r.result]
    /\ model' = model
    /\ cprev' = model
    /\ UNCHANGED notClassifier

NextClassifier ==
    \/ ClfBuild
    \/ ClfPredict
    \/ ClfLoad
    \/ ClfSave
    \/ ClfFit
    \/ ClfDownload
    \/ ClfRemoteFlow

\* ------------------------------------------------------------------------
\* SkinLesionDataset and VascularLesionTrainer.create_dataloaders
\* ------------------------------------------------------------------------

\* class names a caller passes to SkinLesionDataset
ClassNames == {"Healthy", "Vascular Lesions"}

\* train_model.py:174, the class list of create_dataloaders
TrainClasses == <<"Healthy", "Vascular Lesions">>

\* class lists given to the constructor directly: any order, repeats included
ClassLists == UNION {[1..k -> ClassNames] : k \in 0..MaxClasses}

\* images_per_class: a positive cap
Caps == 1..MaxCap

\* val_split in tenths.  For these fractions int(n * (1 - val_split)) in
\* double arithmetic equals (n * (10 - v)) \div 10 for every n.
ValTenths == {0, 2, 5}

\* str.lower() on the suffixes and names that occur
LowerOf(s) ==
    CASE s = ".JPG" -> ".jpg"
      [] s = ".PNG" -> ".png"
      [] s = "Healthy" -> "healthy"
      [] s = "Vascular Lesions" -> "vascular lesions"
      [] s = "Vascular lesions" -> "vascular lesions"
      [] OTHER -> s

\* train_model.py:70,79
ImageSuffixes == {".jpg", ".jpeg", ".png", ".bmp"}

IsImage(f) == LowerOf(f.suffix) \in ImageSuffixes

File(stem, suffix) == [stem |-> stem, suffix |-> suffix]

NoFolder == [exists |-> FALSE, files |-> <<>>]

Folder(files) == [exists |-> TRUE, files |-> files]

\* Directories a caller can name: `exists` is exists() and is_dir(), `subs`
\* the class subfolders, `own` the entries directly inside, both in the
\* order glob('*') yields them.
TrainRoot ==
    [name |-> "train", exists |-> TRUE,
     subs |-> [c \in ClassNames |->
                 IF c = "Healthy"
                 THEN Folder(<<File("h1", ".jpg"), File("readme", ".txt"),
                               File("h2", ".PNG")>>)
                 ELSE Folder(<<File("v1", ".jpeg")>>)],
     own |-> <<>>]

HealthyFolder ==
    [name |-> "Healthy", exists |-> TRUE,
     subs |-> [c \in ClassNames |-> NoFolder],
     own |-> <<File("h3", ".bmp"), File("h4", ".gif")>>]

VascularFolder ==
    [name |-> "Vascular lesions", exists |-> TRUE,
     subs |-> [c \in ClassNames |-> NoFolder],
     own |-> <<File("v2", ".JPG"), File("v3", ".png")>>]

NestedHealthy ==
    [name |-> "Healthy", exists |-> TRUE,
     subs |-> [c \in ClassNames |->
                 IF c = "Healthy" THEN Folder(<<File("notes", ".txt")>>)
                 ELSE NoFolder],
     own |-> <<File("h5", ".jpg")>>]

MissingDir ==
    [name |-> "Healthy", exists |-> FALSE,
     subs |-> [c \in ClassNames |-> NoFolder],
     own |-> <<>>]

DirShapes ==
    {TrainRoot, HealthyFolder, VascularFolder, NestedHealthy, MissingDir}

\* the lists of directories given as root_dirs / data_dirs
DirLists == UNION {[1..k -> DirShapes] : k \in 0..MaxDirs}

\* train_model.py:145-161
TrainTransform ==
    <<"Resize", "RandomHorizontalFlip", "RandomVerticalFlip",
      "RandomRotation", "ColorJitter", "ToImage", "ToDtype", "Normalize">>

\* train_model.py:164-170
ValTransform == <<"Resize", "ToImage", "ToDtype", "Normalize">>

NoTransform == <<>>

RandomSteps ==
    {"RandomHorizontalFlip", "RandomVerticalFlip", "RandomRotation",
     "ColorJitter"}

Augments(steps) == \E i \in 1..Len(steps) : steps[i] \in RandomSteps

\* the (str(img_path), label) entries of one glob: lines 69-71 and 78-80
Entries(dirname, sub, files, label) ==
    LET imgs == SelectSeq(files, IsImage) IN
    [i \in 1..Len(imgs) |->
        [path |-> <<dirname, sub, imgs[i].stem, imgs[i].suffix>>,
         label |-> label]]

\* train_model.py:64-80: what one root contributes to `collected`
ScanRoot(root, cls, label) ==
    IF root.exists /\ root.subs[cls].exists
    THEN Entries(root.name, cls, root.subs[cls].files, label)
    ELSE IF root.exists /\ LowerOf(root.name) = LowerOf(cls)
    THEN Entries(root.name, "", root.own, label)
    ELSE <<>>

\* train_model.py:61-80: the loop over self.root_dirs
RECURSIVE Collected(_, _, _)
Collected(dirs, cls, label) ==
    IF dirs = <<>> THEN <<>>
    ELSE ScanRoot(Head(dirs), cls, label) \o Collected(Tail(dirs), cls, label)

\* train_model.py:88: collected[:images_per_class]
TakeLast(s, n) ==
    IF n >= Len(s) THEN s ELSE SubSeq(s, Len(s) - n + 1, Len(s))

Take(s, n) == IF n >= Len(s) THEN s ELSE SubSeq(s, 1, n)

\* train_model.py:52: {c: i for i, c in enumerate(classes)}; a repeated key
\* keeps the index of its last occurrence
ClassToIdx(classes) ==
    [c \in {classes[i] : i \in 1..Len(classes)} |->
        (CHOOSE i \in 1..Len(classes) :
            /\ classes[i] = c
            /\ \A j \in (i + 1)..Len(classes) : classes[j] # c) - 1]

\* train_model.py:88: self.images.extend(...), for the first k classes
RECURSIVE Extended(_, _)
Extended(loaded, k) ==
    IF k = 0 THEN <<>> ELSE Extended(loaded, k - 1) \o loaded[k]

NoDataset ==
    [classes |-> <<>>, class_to_idx |-> <<>>, transform |-> NoTransform,
     images |-> <<>>]

NoLog == [warned |-> {}, loaded |-> <<>>]

NoSample == [part |-> "none", path |-> <<>>, label |-> 0, steps |-> <<>>]

\* train_model.py:44-89: SkinLesionDataset.__init__.  `ds` is the object,
\* `log` what the constructor printed: the classes warned about (line 83) and
\* the slice loaded per class (line 89).  root_dirs is a list of paths; a
\* single path is wrapped into a one-element list by lines 46-47.
SkinLesionDataset(root_dirs, classes, transform, cap) ==
    LET c2i == ClassToIdx(classes)
        collected == [k \in 1..Len(classes) |->
                         Collected(root_dirs, classes[k], c2i[classes[k]])]
        loaded == [k \in 1..Len(classes) |-> Take(collected[k], cap)]
    IN [ds  |-> [classes |-> classes, class_to_idx |-> c2i,
                 transform |-> transform,
                 images |-> Extended(loaded, Len(classes))],
        log |-> [warned |-> {classes[k] : k \in
                               {j \in 1..Len(classes) : collected[j] = <<>>}},
                 loaded |-> loaded]]

\* train_model.py:94-99: SkinLesionDataset.__getitem__ (1-based idx)
getitem(ds, idx) ==
    [path |-> ds.images[idx].path, label |-> ds.images[idx].label,
     steps |-> ds.transform]

\* train_model.py:182: int(len(dataset) * (1 - val_split))
TrainSize(n, v) == (n * (10 - v)) \div 10

\* train_model.py:184: random_split; the indices of the training Subset
Splits(n, train_size) ==
    {s \in SUBSET (1..n) : Cardinality(s) = train_size}

\* train_model.py:185: val_dataset.dataset.transform = val_transform.  The
\* Subset's `dataset` attribute is the one SkinLesionDataset object both
\* Subsets refer to.
AssignToSubsetCopy(ds, t) == ds

AssignTransform(ds, t) == [ds EXCEPT !.transform = t]

EmptyDatasetError == "ValueError: No images found"

\* DataLoader(..., shuffle=True) builds a RandomSampler, whose constructor
\* rejects a data source of length 0.
EmptySamplerError == "ValueError: num_samples should be a positive integer"

InitDataset ==
    /\ data_dirs \in DirLists
    /\ dpc = "idle"
    /\ images_per_class = 0
    /\ val_split = 0
    /\ dataset = NoDataset
    /\ dlog = NoLog
    /\ derr = "none"
    /\ train_dataset = {}
    /\ val_dataset = {}
    /\ sample = NoSample

\* A caller constructs SkinLesionDataset(data_dirs, classes, transform, cap).
NewDataset ==
    /\ dpc = "idle"
    /\ \E classes \in ClassLists, cap \in Caps :
          LET r == SkinLesionDataset(data_dirs, classes, TrainTransform, cap) IN
          /\ images_per_class' = cap
          /\ dataset' = r.ds
          /\ dlog' = r.log
    /\ dpc' = "built"
    /\ UNCHANGED <<data_dirs, val_split, derr, train_dataset, val_dataset,
                   sample>>
    /\ UNCHANGED notDataset

\* train_model.py:142-192: create_dataloaders(data_dirs, val_split,
\* images_per_class) as a whole.
CreateDataloaders ==
    /\ dpc = "idle"
    /\ \E v \in ValTenths, cap \in Caps :
          LET r == SkinLesionDataset(data_dirs, TrainClasses, TrainTransform,
                                     cap)
              n == Len(r.ds.images)
          IN
          /\ images_per_class' = cap
          /\ val_split' = v
          /\ dlog' = r.log
          /\ IF n = 0
             THEN /\ derr' = EmptyDatasetError
                  /\ dpc' = "failed"
                  /\ UNCHANGED <<dataset, train_dataset, val_dataset>>
             ELSE \E tr \in Splits(n, TrainSize(n, v)) :
                     \* lines 184-185 are done before line 188 can raise
                     /\ dataset' = AssignTransform(r.ds, ValTransform)
                     /\ train_dataset' = tr
                     /\ val_dataset' = (1..n) \ tr
                     /\ IF tr = {}
                        THEN /\ derr' = EmptySamplerError
                             /\ dpc' = "failed"
                        ELSE /\ dpc' = "loaders"
                             /\ UNCHANGED derr
    /\ UNCHANGED <<data_dirs, sample>>
    /\ UNCHANGED notDataset

\* One sample is read: through a loader's Subset (Subset.__getitem__ calls
\* self.dataset[self.indices[idx]]) or from the dataset directly.
GetItem ==
    /\ \/ /\ dpc = "loaders"
          /\ \E part \in {"train", "val"} :
                \E i \in (IF part = "train" THEN train_dataset
                                            ELSE val_dataset) :
                    sample' = [part |-> part] @@ getitem(dataset, i)
       \/ /\ dpc = "built"
          /\ \E i \in 1..Len(dataset.images) :
                sample' = [part |-> "dataset"] @@ getitem(dataset, i)
    /\ UNCHANGED <<data_dirs, dpc, images_per_class, val_split, dataset,
                   dlog, derr, train_dataset, val_dataset>>
    /\ UNCHANGED notDataset

NextDataset ==
    \/ NewDataset
    \/ CreateDataloaders
    \/ GetItem

\* ------------------------------------------------------------------------
\* Specifications
\* ------------------------------------------------------------------------
vars == <<svars, tvars, disk, cvars, dvars>>

\* the import of the module, then threads calling ModelService() and
\* serving requests; trainer and classifier idle
ServiceInit ==
    /\ InitService
    /\ InitTrainer /\ num_epochs = 0
    /\ InitClassifier
    /\ disk = [f \in Files |-> NoFile]
    /\ InitDataset /\ data_dirs = <<>>

SpecService == ServiceInit /\ [][NextService]_vars

\* one VascularLesionTrainer.train run; service and classifier idle
TrainerInit ==
    /\ InitService /\ modelFile = "valid"
    /\ InitTrainer /\ num_epochs \in 0..MaxEpochs
    /\ InitTrainerDisk
    /\ InitClassifier
    /\ InitDataset /\ data_dirs = <<>>

SpecTrainer == TrainerInit /\ [][NextTrainer]_vars

\* one EfficientNetV2DiseaseClassifier object; service and trainer idle
ClassifierInit ==
    /\ InitService /\ modelFile = "valid"
    /\ InitTrainer /\ num_epochs = 0
    /\ InitClassifierDisk
    /\ InitClassifier
    /\ InitDataset /\ data_dirs = <<>>

SpecClassifier == ClassifierInit /\ [][NextClassifier]_vars

\* SkinLesionDataset and create_dataloaders over the directories given;
\* service, trainer loop and classifier idle
DatasetInit ==
    /\ InitService /\ modelFile = "valid"
    /\ InitTrainer /\ num_epochs = 0
    /\ InitClassifier
    /\ disk = [f \in Files |-> NoFile]
    /\ InitDataset

SpecDataset == DatasetInit /\ [][NextDataset]_vars

\* ------------------------------------------------------------------------
\* Properties
\* ------------------------------------------------------------------------

\* C1: however the ModelService() calls of the process interleave, on first
\* access and later, _load_model runs at most once in the process and at
\* most one ModelService object is ever created.
C1_LoadAtMostOnce == loads <= 1 /\ objs <= 1

\* C2: no ModelService() call returns an object whose classifier has not
\* been installed: what a caller gets in hand is a fully loaded instance.
C2_NoHalfBuiltInstance ==
    \A t \in Callers : sret[t] # 0 => classifierOf[sret[t]] # 0

\* C3: a failed checkpoint write is reported by save_checkpoint as a False
\* return, never raised; no train call is ever left because of a write (the
\* only error that leaves train is the division by zero of a pass over a
\* loader without batches), a call can always take its next step until it
\* ends, and when it is done all num_epochs epochs of the call have been
\* applied to the in-memory model.
C3_WriteFailureDoesNotAbort ==
    /\ tpc = "aborted" =>
          /\ terr = "ZeroDivisionError"
          /\ train_loader = "empty" \/ val_loader = "empty"
    /\ lastSave.outcome \notin {"none", "ok"} => lastSave.ret = "False"
    /\ tpc \notin {"done", "aborted"} => ENABLED NextTrainer
    /\ tpc = "done" => /\ epoch = num_epochs
                       /\ modelEpochs = base.epochs + num_epochs
                       /\ Len(history.val_acc) = base.hist + num_epochs

\* C3 witness: a call with the largest num_epochs has finished with all
\* epochs applied although the best checkpoint write of epoch 1 failed.
C3_Witness ==
    /\ tpc = "done"
    /\ num_epochs = MaxEpochs
    /\ modelEpochs = MaxEpochs
    /\ 1 \in failedEpochs
    /\ lastSave.ret = "False"

\* the validation accuracy of epoch k of the present train call
RunValAcc(k) == history.val_acc[base.hist + k]

\* C4 as stated: the best checkpoint write is attempted at the end of epoch k
\* if and only if the validation accuracy of epoch k strictly exceeds that of
\* every earlier epoch of the run.
C4_BestIffExceedsEarlier ==
    \A k \in 1..epoch :
        (k \in bestAttempts) <=>
            (\A j \in 1..(k - 1) : RunValAcc(k) > RunValAcc(j))

\* C4 amended: the best checkpoint write is attempted at the end of epoch k
\* if and only if the validation accuracy of epoch k is strictly greater than
\* 0.0, the initial best_val_acc, and strictly exceeds that of every earlier
\* epoch of the run.
C4_BestIffExceedsEarlierAndZero ==
    \A k \in 1..epoch :
        (k \in bestAttempts) <=>
            /\ RunValAcc(k) > 0
            /\ \A j \in 1..(k - 1) : RunValAcc(k) > RunValAcc(j)

\* C4 witness: a finished call wrote best at epoch 1 and not at epoch 2,
\* whose accuracy was positive but no higher than that of epoch 1.
C4_Witness ==
    /\ tpc = "done"
    /\ epoch = 2
    /\ bestAttempts = {1}
    /\ RunValAcc(2) > 0

\* C5: in one train call the last checkpoint write is attempted at most
\* once, only when all num_epochs epochs of the call have completed, and a
\* call that is done has attempted it exactly once, whatever the accuracies
\* and the outcomes of the best writes.
C5_LastWrittenOnceAfterFinalEpoch ==
    /\ Len(lastWrites) <= 1
    /\ \A i \in DOMAIN lastWrites :
          /\ lastWrites[i] = num_epochs
          /\ modelEpochs = base.epochs + num_epochs
    /\ tpc = "done" => Len(lastWrites) = 1

\* C5 witness: a finished call with the largest num_epochs in which a best
\* write failed and no epoch after the first improved has attempted the last
\* write once.
C5_Witness ==
    /\ tpc = "done"
    /\ num_epochs = MaxEpochs
    /\ failedEpochs # {}
    /\ Cardinality(bestAttempts) = 1
    /\ Len(lastWrites) = 1

\* C6: every checkpoint file that training has written holds the keys the
\* inference loader requires, weights and class_to_index.
C6_CheckpointHasRequiredKeys ==
    lastSave.outcome \in {"ok", "verify_error"} =>
        {"weights", "class_to_index"} \subseteq disk[lastSave.file].keys

\* the error the specification names for inference without a loaded model
ModelNotLoadedError == "ModelNotLoadedError"

\* C7: a prediction asked of a service whose classifier is None fails with
\* the named model-not-loaded error: a predict_from_image_bytes call that
\* fails for another reason than undecodable bytes ends with that error,
\* never with the fault of a lookup on None.
C7_PredictWithoutModelFailsExplicitly ==
    \A t \in Threads :
        sout[t] \notin {"none", "ok", "UnidentifiedImageError"} =>
            sout[t] = ModelNotLoadedError

\* the validity of a checkpoint bundle: the required keys are there and
\* class_to_index is a one-to-one mapping onto 0..n-1
SpecValid(f) ==
    /\ f.state = "written"
    /\ {"weights", "class_to_index"} \subseteq f.keys
    /\ {p[2] : p \in f.c2i} = 0..(Cardinality(f.c2i) - 1)
    /\ Cardinality({p[1] : p \in f.c2i}) = Cardinality(f.c2i)

\* C8: loading an existing file that lacks a required key, or whose
\* class_to_index is not contiguous from 0, fails with the error for a corrupt
\* artifact and installs nothing.
C8_InvalidArtifactRejected ==
    (/\ cout.op = "load_model"
     /\ cout.result # "ImportError"
     /\ disk[cout.path].state # "none"
     /\ ~SpecValid(disk[cout.path])) =>
        /\ cout.result \in {"RuntimeError", "EOFError"}
        /\ model = cprev

\* the index the label table {no_disease: 0, disease: 1} gives a label
IndexOfLabel(l) == IF l = "no_disease" THEN 0 ELSE 1

\* C9: the label predict returns is the one of the index of maximum
\* probability, the lowest such index on ties; logits [2, -1] give no_disease.
C9_PredictReturnsArgmaxLabel ==
    (cout.op = "predict" /\ cout.result = "ok") =>
        LET i == IndexOfLabel(cout.label) IN
        /\ cout.label \in {"no_disease", "disease"}
        /\ \A j \in Classes :
              /\ cout.probs[j] <= cout.probs[i]
              /\ cout.logits[j] <= cout.logits[i]
              /\ j < i => cout.probs[j] < cout.probs[i]
        /\ cout.conf = cout.probs[i]
        /\ (cout.logits[0] = 2 /\ cout.logits[1] = -1) =>
              cout.label = "no_disease"

\* C9 witness: predict has returned no_disease for the logits [2, -1].
C9_Witness ==
    /\ cout.op = "predict"
    /\ cout.result = "ok"
    /\ cout.logits[0] = 2
    /\ cout.logits[1] = -1
    /\ cout.label = "no_disease"

\* C10: a load_model call on a classifier that holds a network replaces
\* and does not merge: afterwards the parameters are the file's, all of
\* them, or, when the load failed, the ones the classifier held, all of
\* them; never some of each.
C10_LoadReplaces ==
    (cout.op = "load_model" /\ cprev.built) =>
        \/ cout.result = "ok" /\ model.w = disk[cout.path].tensors
        \/ cout.result # "ok" /\ model.w = cprev.w

\* the four lists of a history
HistoryKeys == {"train_loss", "train_acc", "val_loss", "val_acc"}

IsPrefix(a, b) == Len(a) <= Len(b) /\ \A i \in 1..Len(a) : a[i] = b[i]

\* the state part of C14: at every position inside a train call the numbers
\* of training passes, validation passes and scheduler steps of the call are
\* those of the order train, validate, step within the current epoch.
C14_CountersInStep ==
    LET passes == modelEpochs - base.epochs
        vals == valPasses - base.val
        steps == schedSteps - base.sched
    IN
    /\ epoch <= num_epochs
    /\ tpc \in {"idle", "loop", "train_epoch", "save_last", "done"} =>
          passes = epoch /\ vals = epoch /\ steps = epoch
    /\ tpc = "validate" =>
          passes = epoch + 1 /\ vals = epoch /\ steps = epoch
    /\ tpc = "scheduler" =>
          passes = epoch + 1 /\ vals = epoch + 1 /\ steps = epoch
    /\ tpc = "epoch_end" =>
          passes = epoch + 1 /\ vals = epoch + 1 /\ steps = epoch + 1
    /\ tpc \in {"save_last", "done"} => epoch = num_epochs

\* C14: in every epoch exactly one training pass, then one validation pass,
\* then one scheduler step take place, and a run goes through the epochs one
\* by one, 1..num_epochs, before it is done; the epoch counter goes back to
\* 0 only when train is called again.
C14_EpochOrder ==
    /\ []C14_CountersInStep
    /\ [][\/ epoch' \in {epoch, epoch + 1}
          \/ /\ tpc \in {"idle", "done", "aborted"}
             /\ tpc' = "loop"
             /\ epoch' = 0]_vars

\* C14 witness: the first train call of a trainer, with the largest
\* num_epochs, is done after as many training passes, validation passes and
\* scheduler steps.
C14_Witness ==
    /\ tpc = "done"
    /\ base = NoBase
    /\ num_epochs = MaxEpochs
    /\ modelEpochs = MaxEpochs
    /\ valPasses = MaxEpochs
    /\ schedSteps = MaxEpochs

\* the state part of C15: inside a train call and at its end each list of
\* the history has one entry per completed epoch of the call, and the best
\* checkpoint written at the end of epoch k, like the last checkpoint written
\* after the final epoch, carries as many entries per list.
C15_HistoryInStep ==
    /\ tpc \notin {"idle", "aborted"} =>
          \A m \in HistoryKeys : Len(history[m]) = epoch
    /\ (tpc = "loop" /\ epoch \in bestAttempts /\ epoch \notin failedEpochs) =>
          \A m \in HistoryKeys :
              Len(disk["best_model.pth"].history[m]) = epoch
    /\ (tpc = "done" /\ lastSave.ret = "True") =>
          \A m \in HistoryKeys :
              Len(disk["last_model.pth"].history[m]) = num_epochs

\* C15: the history is in step with the epoch counter and append-only: no
\* step removes or rewrites an earlier entry, and a checkpoint written at the
\* end of epoch k carries exactly k entries per metric.
C15_HistoryAppendOnly ==
    /\ []C15_HistoryInStep
    /\ [][\A m \in HistoryKeys : IsPrefix(history[m], history'[m])]_vars

\* the first k entries of every list of a history
HistoryPrefix(h, k) == [m \in HistoryKeys |-> SubSeq(h[m], 1, k)]

\* the earliest epoch of the present train call that has the highest
\* validation accuracy of the call
BestEpoch ==
    CHOOSE k \in 1..epoch :
        /\ \A j \in 1..epoch : RunValAcc(j) <= RunValAcc(k)
        /\ \A j \in 1..(k - 1) : RunValAcc(j) < RunValAcc(k)

\* C20: when a run is done, a complete best_model.pth on disk holds the
\* weights and the history of the earliest epoch with the highest validation
\* accuracy of the run.
C20_BestFileIsBestEpoch ==
    (/\ tpc = "done"
     /\ disk["best_model.pth"].state = "written"
     /\ disk["best_model.pth"] # StaleFile) =>
        /\ epoch > 0
        /\ disk["best_model.pth"] =
              CheckpointPayload(base.epochs + BestEpoch,
                                HistoryPrefix(history, base.hist + BestEpoch))

\* C19: a ModelService() call whose load raised leaves the service not
\* loaded (no published instance once every call has ended), and no call
\* made while the checkpoint cannot be loaded returns an object whose
\* classifier is None.
C19_FailedLoadNotPublished ==
    /\ \A u \in Callers :
          (serr[u] # "none" /\ (\A t \in Callers : spc[t] = "idle")) =>
              instance[scls[u]] = 0
    /\ \A t \in Callers :
          (modelFile # "valid" /\ sret[t] # 0) => classifierOf[sret[t]] # 0

\* C12: a request whose bytes cannot be decoded is answered with a 4xx
\* status, a request that fails for any other reason with a 5xx status.
C12_DecodeFailureIs4xx ==
    \A t \in Threads :
        /\ sout[t] = "UnidentifiedImageError" => shttp[t] \in 400..499
        /\ sout[t] = "AttributeError" => shttp[t] \in 500..599

\* no directory given holds an image of class c
NoImagesFor(c) ==
    \A j \in 1..Len(data_dirs) : ScanRoot(data_dirs[j], c, 0) = <<>>

\* C11: create_dataloaders fails with the empty-dataset error exactly when no
\* image is found for any class; when one class has images and another has
\* none it does not fail, and every class without images was warned about.
C11_EmptyDatasetErrorExactly ==
    dpc \in {"loaders", "failed"} =>
        /\ derr = EmptyDatasetError <=>
              \A c \in ClassNames : NoImagesFor(c)
        /\ ((\E c \in ClassNames : ~NoImagesFor(c))
            /\ (\E c \in ClassNames : NoImagesFor(c))) =>
              /\ derr = "none"
              /\ \A c \in ClassNames : NoImagesFor(c) => c \in dlog.warned

\* C13: every sample read through the validation partition was produced by
\* the deterministic transform, with no random augmentation step.
C13_ValidationNeverAugmented ==
    sample.part = "val" =>
        /\ sample.steps = ValTransform
        /\ ~Augments(sample.steps)

\* C13 witness: with half of a dataset of at least 3 images held out, a
\* sample of the validation partition has been read.
C13_Witness ==
    /\ dpc = "loaders"
    /\ val_split = 5
    /\ Len(dataset.images) >= 3
    /\ sample.part = "val"

\* what directory j holds for class c, as entries of the dataset
ImagesIn(j, c) == ScanRoot(data_dirs[j], c, dataset.class_to_idx[c])

\* the number of images of class c in the first j directories
RECURSIVE FoundUpTo(_, _)
FoundUpTo(j, c) ==
    IF j = 0 THEN 0 ELSE FoundUpTo(j - 1, c) + Len(ImagesIn(j, c))

\* the entries of a sequence that carry the label
WithLabel(images, label) ==
    LET Has(e) == e.label = label IN SelectSeq(images, Has)

Distinct(classes) ==
    \A i, j \in 1..Len(classes) : i # j => classes[i] # classes[j]

\* C16: for every class of the list the dataset keeps min(cap, total found)
\* images; the p-th image of directory j is kept exactly when all images of
\* the directories before j and the p - 1 before it in j fit under the cap
\* with it, and it is kept at that place.
C16_CapAfterConcatenation ==
    dpc \in {"built", "loaders"} =>
        /\ Len(dlog.loaded) = Len(dataset.classes)
        /\ \A k \in 1..Len(dataset.classes) :
              LET c == dataset.classes[k]
                  kept == dlog.loaded[k]
                  total == FoundUpTo(Len(data_dirs), c)
              IN /\ Len(kept) = (IF images_per_class < total
                                 THEN images_per_class ELSE total)
                 /\ \A j \in 1..Len(data_dirs) :
                       \A p \in 1..Len(ImagesIn(j, c)) :
                           LET g == FoundUpTo(j - 1, c) + p IN
                           g <= images_per_class =>
                               /\ g <= Len(kept)
                               /\ kept[g] = ImagesIn(j, c)[p]
                 /\ Distinct(dataset.classes) =>
                       WithLabel(dataset.images, dataset.class_to_idx[c]) = kept

\* C16 witness: a class with more images than the cap, found in two
\* directories, whose kept images come from both.
C16_Witness ==
    /\ dpc = "built"
    /\ \E k \in 1..Len(dataset.classes) :
          /\ FoundUpTo(Len(data_dirs), dataset.classes[k]) > images_per_class
          /\ Len(dlog.loaded[k]) = images_per_class
          /\ dlog.loaded[k][1].path[1] # dlog.loaded[k][images_per_class].path[1]

\* C17: for any class list the indices of class_to_idx are unique and are
\* exactly 0..num_classes-1, num_classes being the number of labels of the
\* mapping, and every sample's label is one of them.
C17_IndicesDenseFromZero ==
    dpc = "built" =>
        LET m == dataset.class_to_idx
            num_classes == Cardinality(DOMAIN m)
        IN /\ \A a, b \in DOMAIN m : a # b => m[a] # m[b]
           /\ {m[c] : c \in DOMAIN m} = 0..(num_classes - 1)
           /\ \A i \in 1..Len(dataset.images) :
                 dataset.images[i].label \in 0..(num_classes - 1)

\* C18: every sample read through the training partition was produced by
\* the augmenting training transform.
C18_TrainingStillAugmented ==
    sample.part = "train" =>
        /\ sample.steps = TrainTransform
        /\ Augments(sample.steps)

\* C21: for a non-empty collected dataset and val_split = 0.2,
\* create_dataloaders returns, and the training and validation partitions
\* are disjoint, together hold every sample of the dataset and are both
\* non-empty.
C21_DefaultSplitBothNonEmpty ==
    (/\ dpc \in {"loaders", "failed"}
     /\ val_split = 2
     /\ derr # EmptyDatasetError) =>
        /\ derr = "none"
        /\ train_dataset \cap val_dataset = {}
        /\ Cardinality(train_dataset) + Cardinality(val_dataset) =
              Len(dataset.images)
        /\ train_dataset # {}
        /\ val_dataset # {}

====
